---- MODULE Spec2Model ----
(***************************************************************************)
(* A model of wiggle-service: the record store (opportunities,             *)
(* multi-exchange opportunities, tokens, exchanges, analysis results), the *)
(* route handlers that write to it and the aggregation handlers that read  *)
(* it.                                                                     *)
(*                                                                         *)
(* Numbers.  Percentages are integers in hundredths of a percent (6.0% is  *)
(* 600), so that round(x, 2) is rounding to an integer.  Dollar amounts    *)
(* are whole dollars.  A quotient the code computes in floating point is   *)
(* kept as an exact fraction [num, den] with den > 0.                      *)
(*                                                                         *)
(* Time.  datetime.now() is the variable now; Tick advances it.            *)
(*                                                                         *)
(* Handlers.  Every aggregation handler awaits one read of the store and   *)
(* then computes its response without awaiting again, so a handler is one  *)
(* step taken at its read; other requests run before or after it.          *)
(* create_token awaits a read and then a write, and DatabaseManager.connect *)
(* awaits the ping and the ODM initialisation: each is a step per await.   *)
(***************************************************************************)
EXTENDS Integers, Sequences, FiniteSets, TLC

VARIABLES
    settings,           \* the global Settings instance, read from the environment
    now,                \* datetime.now()
    opportunities,      \* collection "opportunities": Seq of OpportunityDocument
    multi_exchange,     \* collection "multi_exchange_opportunities": Seq of documents
    tokens,             \* collection "tokens"
    exchanges,          \* collection "exchanges"
    analysis_results,   \* collection "analysis_results"
    scan,               \* per writer: the document instance it holds in memory
    creating,           \* per writer: its create_token request between the awaits
    db_manager,         \* the global DatabaseManager: _client, _database, _is_connected
    clients,            \* every AsyncIOMotorClient created so far: "open" or "closed"
    server_up,          \* whether the MongoDB server can be reached
    tasks,              \* per task: its position in connect or health_check
    app,                \* the application's lifespan
    last                \* the last request served and its response

stores == <<opportunities, multi_exchange, tokens, exchanges, analysis_results>>
conn == <<db_manager, clients, server_up, tasks, app>>
vars == <<settings, now, opportunities, multi_exchange, tokens, exchanges, analysis_results, scan,
          creating, db_manager, clients, server_up, tasks, app, last>>

None == "None"

----------------------------------------------------------------------------
(* Bounds of the model *)

MaxOpps == 3          \* documents in "opportunities"
MaxTime == 2          \* ticks of the clock
MaxPairEntries == 2   \* pair entries in one multi-exchange document

MaxClients == 3       \* AsyncIOMotorClient instances created in one run

Writers == {"w1", "w2"}

Tasks == {"t1", "t2", "t3", "lifespan"}

----------------------------------------------------------------------------
(* Arithmetic *)

Rat(n, d) == [num |-> n, den |-> d]

RatEq(a, b) == a.num * b.den = b.num * a.den

\* round(x, 2) of the fraction n/d (d > 0), in hundredths: the nearest
\* integer, a tie going to the even one.
Round2(n, d) ==
    LET q == (2 * n + d) \div (2 * d)
        tie == (2 * n + d) % (2 * d) = 0
    IN  IF tie /\ q % 2 # 0 THEN q - 1 ELSE q

RECURSIVE SumSeq(_)
SumSeq(s) == IF s = <<>> THEN 0 ELSE Head(s) + SumSeq(Tail(s))

RECURSIVE MaxSeq(_)
MaxSeq(s) ==
    IF Len(s) = 1 THEN Head(s)
    ELSE LET m == MaxSeq(Tail(s)) IN IF Head(s) >= m THEN Head(s) ELSE m

Range(s) == {s[i] : i \in DOMAIN s}

----------------------------------------------------------------------------
(* Opportunities: POST /api/v1/opportunities *)

\* Variant of the request model: capital_required_usd accepted from 0.
ValidOpportunityRequestLax(req) ==
    /\ req.estimated_return_percent >= 0
    /\ req.capital_required_usd >= 0
    /\ req.duration_hours > 0
    /\ Len(req.source_exchanges) >= 1
    /\ req.gas_cost_usd >= 0
    /\ req.trading_fees_percent >= 0

\* OpportunityCreateRequest's field constraints; a request that breaks one is
\* answered 422 before the handler runs.
ValidOpportunityRequest(req) ==
    /\ req.estimated_return_percent >= 0
    /\ req.capital_required_usd > 0
    /\ req.duration_hours > 0
    /\ Len(req.source_exchanges) >= 1
    /\ req.gas_cost_usd >= 0
    /\ req.trading_fees_percent >= 0

\* Variant of the net return: the gas impact not scaled to a percentage.
NetReturnNoScale(req) ==
    Rat(req.estimated_return_percent * req.capital_required_usd
            - req.gas_cost_usd * 100
            - req.trading_fees_percent * req.capital_required_usd,
        req.capital_required_usd)

\* gas_impact = gas_cost_usd / capital_required_usd * 100
\* net_return = estimated_return_percent - gas_impact - trading_fees_percent
\* (one dollar of gas on one dollar of capital is 100 percent, 10000 hundredths)
NetReturn(req) ==
    Rat(req.estimated_return_percent * req.capital_required_usd
            - req.gas_cost_usd * 100 * 100
            - req.trading_fees_percent * req.capital_required_usd,
        req.capital_required_usd)

\* OpportunityDocument(...) as create_opportunity builds it: the request's
\* fields, the computed net return, and the class defaults.
NewOpportunity(req, id) ==
    [ id |-> id,
      estimated_return_percent |-> req.estimated_return_percent,
      capital_required_usd |-> req.capital_required_usd,
      net_return_percent |-> NetReturn(req),
      duration_hours |-> req.duration_hours,
      source_exchanges |-> req.source_exchanges,
      token_symbol |-> req.token_symbol,
      gas_cost_usd |-> req.gas_cost_usd,
      trading_fees_percent |-> req.trading_fees_percent,
      is_executed |-> FALSE,
      created_at |-> now ]

CreateOpportunity(req) ==
    /\ Len(opportunities) < MaxOpps
    /\ IF ValidOpportunityRequest(req)
       THEN /\ opportunities' =
                  Append(opportunities, NewOpportunity(req, Len(opportunities) + 1))
            /\ last' = [op |-> "create_opportunity", args |-> req,
                        status |-> 200, body |-> Len(opportunities) + 1]
       ELSE /\ opportunities' = opportunities
            /\ last' = [op |-> "create_opportunity", args |-> req,
                        status |-> 422, body |-> 0]
    /\ UNCHANGED <<settings, creating, conn, now, multi_exchange, tokens, exchanges, analysis_results, scan>>

\* The executor that consumes the opportunities marks one executed
\* (is_executed, execution_timestamp); no route of the service does.
ExternalExecute(i) ==
    /\ i \in DOMAIN opportunities
    /\ ~opportunities[i].is_executed
    /\ opportunities' = [opportunities EXCEPT ![i].is_executed = TRUE]
    /\ last' = [op |-> "external_execute", args |-> i, status |-> 0, body |-> 0]
    /\ UNCHANGED <<settings, creating, conn, now, multi_exchange, tokens, exchanges, analysis_results, scan>>

Tick ==
    /\ now < MaxTime
    /\ now' = now + 1
    /\ last' = [op |-> "tick", args |-> 0, status |-> 0, body |-> 0]
    /\ UNCHANGED <<settings, creating, conn, opportunities, multi_exchange, tokens, exchanges, analysis_results, scan>>

----------------------------------------------------------------------------
(* Multi-exchange opportunities.  The service defines the document class   *)
(* and reads the collection; it has no handler that writes it.  Documents  *)
(* are written through the class itself: the constructor (which validates  *)
(* the fields), insert() and save().                                       *)

EmptyDict == [k \in {} |-> <<>>]

DictGet(d, k) == IF k \in DOMAIN d THEN d[k] ELSE <<>>

DictPut(d, k, v) == [x \in DOMAIN d \cup {k} |-> IF x = k THEN v ELSE d[x]]

\* ExchangePairOpportunityEmbedded: the fields the service reads.
PairEntry(r, t) == [return_percent |-> r, date |-> t]

\* sum(len(v) for v in exchange_pair_opportunities.values())
PairEntryCount(pairs) ==
    LET RECURSIVE Count(_)
        Count(K) == IF K = {} THEN 0
                    ELSE LET k == CHOOSE x \in K : TRUE
                         IN  Len(pairs[k]) + Count(K \ {k})
    IN  Count(DOMAIN pairs)

\* The field constraints of MultiExchangeOpportunityDocument; the class has
\* no validator that relates one field to another.
ValidMultiExchangeDocument(d) ==
    /\ Len(d.supported_exchanges) >= 2
    /\ d.priority \in {"high", "medium", "low"}
    /\ d.scan_frequency > 0
    /\ d.total_opportunities >= 0
    /\ d.best_overall_return >= 0

SymbolIndex(sym) == {i \in DOMAIN multi_exchange : multi_exchange[i].symbol = sym}

\* What the log keeps of an insert: the token and its exchanges.
InsertArgs(d) == [symbol |-> d.symbol, supported_exchanges |-> d.supported_exchanges]

\* MultiExchangeOpportunityDocument(**d).insert(): the constructor raises
\* ValidationError (422 here) on a field constraint, the unique index on
\* symbol raises DuplicateKeyError (409 here) on a second document of a token.
InsertMultiExchangeOpportunity(d) ==
    /\ IF ~ValidMultiExchangeDocument(d)
       THEN /\ multi_exchange' = multi_exchange
            /\ last' = [op |-> "insert_multi_exchange", args |-> InsertArgs(d),
                        status |-> 422, body |-> 0]
       ELSE IF SymbolIndex(d.symbol) # {}
       THEN /\ multi_exchange' = multi_exchange
            /\ last' = [op |-> "insert_multi_exchange", args |-> InsertArgs(d),
                        status |-> 409, body |-> 0]
       ELSE /\ multi_exchange' = Append(multi_exchange, d)
            /\ last' = [op |-> "insert_multi_exchange", args |-> InsertArgs(d),
                        status |-> 200, body |-> Len(multi_exchange) + 1]
    /\ UNCHANGED <<settings, creating, conn, now, opportunities, tokens, exchanges, analysis_results, scan>>

IdleScan == [pc |-> "idle", id |-> 0, key |-> None, entry |-> PairEntry(0, 0)]

\* The fields of a loaded document that save() writes back as they were
\* loaded.  The derived fields of the copy are assigned again before every
\* save() and are not kept.
LoadedCopy(d) ==
    [ symbol |-> d.symbol,
      supported_exchanges |-> d.supported_exchanges,
      exchange_pair_opportunities |-> d.exchange_pair_opportunities,
      scan_frequency |-> d.scan_frequency,
      analysis_timestamp |-> d.analysis_timestamp ]

\* doc = await MultiExchangeOpportunityDocument.find_one({"symbol": sym}):
\* the writer now holds a copy of the stored document.
FindOneForScan(w, sym) ==
    /\ scan[w].pc = "idle"
    /\ \E i \in SymbolIndex(sym) :
          scan' = [scan EXCEPT ![w] =
                      [pc |-> "loaded", id |-> i, doc |-> LoadedCopy(multi_exchange[i])]]
    /\ last' = [op |-> "find_one", args |-> sym, status |-> 200, body |-> 0]
    /\ UNCHANGED <<settings, creating, conn, now, stores>>

\* doc.exchange_pair_opportunities.setdefault(k, []).append(e)
AppendedPairs(doc, k, e) ==
    DictPut(doc.exchange_pair_opportunities, k,
            Append(DictGet(doc.exchange_pair_opportunities, k), e))

\* The writer appends one entry to the copy it holds, assigns the derived
\* fields (the class computes none of them) and calls save().  save() writes
\* the whole document under its id: the class sets no revision check
\* (Settings.use_revision) and nothing runs inside a DatabaseTransaction.
SaveAppended(w, k, r, best, total, bor, prio) ==
    /\ scan[w].pc = "loaded"
    /\ LET old == scan[w].doc
           e == PairEntry(r, now)
           pairs == AppendedPairs(old, k, e)
           new == [ symbol |-> old.symbol,
                    supported_exchanges |-> old.supported_exchanges,
                    exchange_pair_opportunities |-> pairs,
                    best_spreads_per_pair |-> best,
                    priority |-> prio,
                    scan_frequency |-> old.scan_frequency,
                    total_opportunities |-> total,
                    best_overall_return |-> bor,
                    analysis_timestamp |-> old.analysis_timestamp ]
       IN  /\ PairEntryCount(pairs) <= MaxPairEntries
           /\ multi_exchange' = [multi_exchange EXCEPT ![scan[w].id] = new]
           /\ scan' = [scan EXCEPT ![w] =
                          [pc |-> "saved", id |-> scan[w].id, key |-> k, entry |-> e]]
           /\ last' = [op |-> "save", args |-> w, status |-> 200, body |-> scan[w].id]
    /\ UNCHANGED <<settings, creating, conn, now, opportunities, tokens, exchanges, analysis_results>>

----------------------------------------------------------------------------
(* Aggregations: GET /api/v1/analytics/..., /api/v1/exchanges/health/summary *)

\* {"$gte": start_date, "$lte": end_date} with end_date = datetime.now() and
\* start_date = end_date - timedelta(days=days)
InWindow(t, days) == now - days <= t /\ t <= now

Returns(opps) == [i \in DOMAIN opps |-> opps[i].estimated_return_percent]

\* The response of get_analytics_overview when the window holds no record.
EmptyOverview ==
    [total |-> 0, executed |-> 0, pending |-> 0,
     average_return |-> 0, max_return |-> 0,
     unique_tokens |-> 0, unique_exchanges |-> 0]

\* Variant of the metrics: the mean taken with integer division.
OverviewOfFloorMean(opps) ==
    LET total == Len(opps)
        executed == Len(SelectSeq(opps, LAMBDA o : o.is_executed))
        returns == Returns(opps)
    IN  [total |-> total,
         executed |-> executed,
         pending |-> total - executed,
         average_return |-> SumSeq(returns) \div Len(returns),
         max_return |-> Round2(MaxSeq(returns), 1),
         unique_tokens |->
             Cardinality({opps[i].token_symbol : i \in DOMAIN opps} \ {None}),
         unique_exchanges |->
             Cardinality(UNION {Range(opps[i].source_exchanges) : i \in DOMAIN opps})]

\* The metrics get_analytics_overview computes from a non-empty list.
OverviewOf(opps) ==
    LET total == Len(opps)
        executed == Len(SelectSeq(opps, LAMBDA o : o.is_executed))
        returns == Returns(opps)
    IN  [total |-> total,
         executed |-> executed,
         pending |-> total - executed,
         average_return |-> Round2(SumSeq(returns), Len(returns)),
         max_return |-> Round2(MaxSeq(returns), 1),
         unique_tokens |->
             Cardinality({opps[i].token_symbol : i \in DOMAIN opps} \ {None}),
         unique_exchanges |->
             Cardinality(UNION {Range(opps[i].source_exchanges) : i \in DOMAIN opps})]

OpportunitiesInWindow(days) ==
    SelectSeq(opportunities, LAMBDA o : InWindow(o.created_at, days))

Overview(days) ==
    LET opps == OpportunitiesInWindow(days)
    IN  IF opps = <<>> THEN EmptyOverview ELSE OverviewOf(opps)

\* Variant of the handler: the overview stored as an analysis result.
GetAnalyticsOverviewPersisted(days) ==
    /\ last' = [op |-> "get_analytics_overview", args |-> days,
                status |-> 200, body |-> Overview(days)]
    /\ analysis_results' = Append(analysis_results, [started_at |-> now])
    /\ UNCHANGED <<settings, creating, conn, now, opportunities, multi_exchange, tokens, exchanges, scan>>

GetAnalyticsOverview(days) ==
    /\ last' = [op |-> "get_analytics_overview", args |-> days,
                status |-> 200, body |-> Overview(days)]
    /\ UNCHANGED <<settings, creating, conn, now, stores, scan>>

\* All orders of the elements of the set S.
Orders(S) ==
    {p \in [1..Cardinality(S) -> S] : \A i, j \in DOMAIN p : i # j => p[i] # p[j]}

RatGeq(a, b) == a.num * b.den >= b.num * a.den

Prefix(s, n) == SubSeq(s, 1, IF n < Len(s) THEN n ELSE Len(s))

\* The $match and $group stages of get_token_performance's pipeline: one
\* group per token_symbol among the records of the window whose symbol is
\* not null.
TokenGroup(days, sym) ==
    SelectSeq(OpportunitiesInWindow(days), LAMBDA o : o.token_symbol = sym)

\* Variant of the $match stage: no {"token_symbol": {"$ne": None}}.
TokenSymbolsInWindowWithNull(days) ==
    {o.token_symbol : o \in Range(OpportunitiesInWindow(days))}

TokenSymbolsInWindow(days) ==
    {o.token_symbol : o \in Range(OpportunitiesInWindow(days))} \ {None}

TokenAverage(days, sym) ==
    LET g == TokenGroup(days, sym) IN Rat(SumSeq(Returns(g)), Len(g))

\* TokenPerformance(...) of one group, the figures rounded as the handler does.
TokenRow(days, sym) ==
    LET g == TokenGroup(days, sym)
    IN  [symbol |-> sym,
         total_opportunities |-> Len(g),
         average_return |-> Round2(SumSeq(Returns(g)), Len(g)),
         max_return |-> Round2(MaxSeq(Returns(g)), 1),
         total_volume_usd |->
             SumSeq([i \in DOMAIN g |-> g[i].capital_required_usd])]

\* Variant of the pipeline: the groups in any order, no $sort stage.
TokenPerformanceUnsorted(days, limit) ==
    {Prefix([i \in DOMAIN p |-> TokenRow(days, p[i])], limit) :
        p \in Orders(TokenSymbolsInWindow(days))}

\* {"$sort": {"average_return": -1}}, {"$limit": limit}: the order of groups
\* with equal averages is the store's choice.
TokenPerformance(days, limit) ==
    {Prefix([i \in DOMAIN p |-> TokenRow(days, p[i])], limit) :
        p \in {q \in Orders(TokenSymbolsInWindow(days)) :
                 \A i, j \in DOMAIN q :
                    i < j => RatGeq(TokenAverage(days, q[i]), TokenAverage(days, q[j]))}}

GetTokenPerformance(days, limit) ==
    /\ \E body \in TokenPerformance(days, limit) :
          last' = [op |-> "get_token_performance", args |-> <<days, limit>>,
                   status |-> 200, body |-> body]
    /\ UNCHANGED <<settings, creating, conn, now, stores, scan>>

\* if pair_opp.return_percent > 6.0
ProfitabilityThreshold == 600

MultiInWindow(days) ==
    SelectSeq(multi_exchange, LAMBDA d : InWindow(d.analysis_timestamp, days))

\* pair_analytics[pair_name]["returns"] after the loop over the documents
RECURSIVE PairReturns(_, _)
PairReturns(docs, k) ==
    IF docs = <<>> THEN <<>>
    ELSE LET l == DictGet(Head(docs).exchange_pair_opportunities, k)
         IN  [i \in DOMAIN l |-> l[i].return_percent] \o PairReturns(Tail(docs), k)

PairNamesInWindow(days) ==
    UNION {DOMAIN d.exchange_pair_opportunities : d \in Range(MultiInWindow(days))}

\* ExchangePairAnalytics(...) of one pair name
PairRow(days, k) ==
    LET returns == PairReturns(MultiInWindow(days), k)
        success_count == Len(SelectSeq(returns, LAMBDA r : r > ProfitabilityThreshold))
    IN  [pair_name |-> k,
         total_opportunities |-> Len(returns),
         average_return |-> Round2(SumSeq(returns), Len(returns)),
         max_return |-> Round2(MaxSeq(returns), 1),
         success_rate |-> Round2(success_count * 100 * 100, Len(returns))]

\* Variant of the response: a zero row for a pair name with no return, no
\* "if data['returns']".
ExchangePairAnalyticsZeroRows(days, limit) ==
    LET ZeroRow(k) == [pair_name |-> k, total_opportunities |-> 0,
                       average_return |-> 0, max_return |-> 0, success_rate |-> 0]
        Row(k) == IF PairReturns(MultiInWindow(days), k) = <<>>
                  THEN ZeroRow(k) ELSE PairRow(days, k)
    IN  {Prefix([i \in DOMAIN p |-> Row(p[i])], limit) :
            p \in {q \in Orders(PairNamesInWindow(days)) :
                     \A i, j \in DOMAIN q :
                        i < j => Row(q[i]).average_return >= Row(q[j]).average_return}}

\* The rows of the pairs with at least one return, sorted on the rounded
\* average (descending, sort is stable), cut to the limit.  The order the
\* pair names were first met in is not modelled: rows with equal averages
\* come in any order.
ExchangePairAnalytics(days, limit) ==
    LET names == {k \in PairNamesInWindow(days) :
                     PairReturns(MultiInWindow(days), k) # <<>>}
    IN  {Prefix([i \in DOMAIN p |-> PairRow(days, p[i])], limit) :
            p \in {q \in Orders(names) :
                     \A i, j \in DOMAIN q :
                        i < j => PairRow(days, q[i]).average_return
                                     >= PairRow(days, q[j]).average_return}}

GetExchangePairAnalytics(days, limit) ==
    /\ \E body \in ExchangePairAnalytics(days, limit) :
          last' = [op |-> "get_exchange_pair_analytics", args |-> <<days, limit>>,
                   status |-> 200, body |-> body]
    /\ UNCHANGED <<settings, creating, conn, now, stores, scan>>

\* ex.consecutive_errors < 3 / >= 3
UnhealthyErrors == 3

\* Variant of the error rate: the fraction, not scaled to a percentage.
ErrorRateFraction(requests, errors) ==
    IF requests > 0 THEN Round2(errors * 100, requests) ELSE 0

\* round((total_errors / total_requests * 100) if total_requests > 0 else 0, 2)
ErrorRatePercent(requests, errors) ==
    IF requests > 0 THEN Round2(errors * 100 * 100, requests) ELSE 0

\* Variant of the condition: unhealthy only above three consecutive errors.
IsUnhealthyAbove(ex) == ex.consecutive_errors > UnhealthyErrors \/ ~ex.is_active

\* if ex.consecutive_errors >= 3 or not ex.is_active
IsUnhealthy(ex) == ex.consecutive_errors >= UnhealthyErrors \/ ~ex.is_active

ExchangeHealthSummary ==
    LET requests == SumSeq([i \in DOMAIN exchanges |-> exchanges[i].total_requests])
        errors == SumSeq([i \in DOMAIN exchanges |-> exchanges[i].total_errors])
        unhealthy == SelectSeq(exchanges, IsUnhealthy)
    IN  [total_exchanges |-> Len(exchanges),
         active_exchanges |-> Len(SelectSeq(exchanges, LAMBDA ex : ex.is_active)),
         healthy_exchanges |->
             Len(SelectSeq(exchanges, LAMBDA ex : ex.is_active
                                            /\ ex.consecutive_errors < UnhealthyErrors)),
         error_rate_percent |-> ErrorRatePercent(requests, errors),
         total_requests |-> requests,
         total_errors |-> errors,
         unhealthy_exchanges |-> [i \in DOMAIN unhealthy |-> unhealthy[i].name]]

\* The field constraints of ExchangeDocument.
ValidExchangeDocument(d) ==
    /\ d.consecutive_errors >= 0
    /\ d.total_requests >= 0
    /\ d.total_errors >= 0

NameIndex(name) == {i \in DOMAIN exchanges : exchanges[i].name = name}

\* ExchangeDocument(**d).insert(): the constructor raises ValidationError
\* (422 here) on a field constraint, the unique index on name raises
\* DuplicateKeyError (409 here) on a second document of a name.
InsertExchange(d) ==
    /\ IF ~ValidExchangeDocument(d)
       THEN /\ exchanges' = exchanges
            /\ last' = [op |-> "insert_exchange", args |-> d.name,
                        status |-> 422, body |-> 0]
       ELSE IF NameIndex(d.name) # {}
       THEN /\ exchanges' = exchanges
            /\ last' = [op |-> "insert_exchange", args |-> d.name,
                        status |-> 409, body |-> 0]
       ELSE /\ exchanges' = Append(exchanges, d)
            /\ last' = [op |-> "insert_exchange", args |-> d.name,
                        status |-> 200, body |-> Len(exchanges) + 1]
    /\ UNCHANGED <<settings, creating, conn, now, opportunities, multi_exchange, tokens,
                   analysis_results, scan>>

\* A client that tracks the health of an exchange assigns the tracking
\* fields of the stored document and calls save().
SaveExchange(d) ==
    /\ ValidExchangeDocument(d)
    /\ \E i \in NameIndex(d.name) :
          /\ exchanges[i] # d
          /\ exchanges' = [exchanges EXCEPT ![i] = d]
          /\ last' = [op |-> "save_exchange", args |-> d.name, status |-> 200, body |-> i]
    /\ UNCHANGED <<settings, creating, conn, now, opportunities, multi_exchange, tokens,
                   analysis_results, scan>>

GetExchangeHealthSummary ==
    /\ last' = [op |-> "get_exchange_health_summary", args |-> 0,
                status |-> 200, body |-> ExchangeHealthSummary]
    /\ UNCHANGED <<settings, creating, conn, now, stores, scan>>

\* The document classes DatabaseManager.connect passes to init_beanie.  A
\* query on a class that is not among them raises CollectionWasNotInitialized.
DocumentModels ==
    {"OpportunityDocument", "MultiExchangeOpportunityDocument",
     "TokenDocument", "ExchangeDocument"}

\* find({"started_at": ...}).sort([("started_at", -1)]).limit(limit)
AnalysisHistory(days, limit) ==
    LET found == {i \in DOMAIN analysis_results :
                     InWindow(analysis_results[i].started_at, days)}
    IN  {Prefix([i \in DOMAIN p |-> analysis_results[p[i]]], limit) :
            p \in {q \in Orders(found) :
                     \A i, j \in DOMAIN q :
                        i < j => analysis_results[q[i]].started_at
                                     >= analysis_results[q[j]].started_at}}

\* The handler's "except Exception" turns the error of the query into a 500.
GetAnalysisHistory(days, limit) ==
    /\ IF "AnalysisResultDocument" \in DocumentModels
       THEN \E body \in AnalysisHistory(days, limit) :
               last' = [op |-> "get_analysis_history", args |-> <<days, limit>>,
                        status |-> 200, body |-> body]
       ELSE last' = [op |-> "get_analysis_history", args |-> <<days, limit>>,
                     status |-> 500, body |-> <<>>]
    /\ UNCHANGED <<settings, creating, conn, now, stores, scan>>

----------------------------------------------------------------------------
(* Analysis runs: POST /api/v1/analytics/analysis-results *)

\* The outcome of a parse: the instant, or ValueError raised.
Parsed(t) == [error |-> FALSE, value |-> t]

ValueError == [error |-> TRUE, value |-> 0]

\* The instants of the ISO strings of the model, in days.
IsoInstants ==
    [s \in {"1970-01-01T00:00:00+00:00", "1970-01-02T00:00:00"} |->
        IF s = "1970-01-01T00:00:00+00:00" THEN 0 ELSE 1]

\* s.replace('Z', '+00:00') on the strings of the model
ReplaceZ(s) == IF s = "1970-01-01T00:00:00Z" THEN "1970-01-01T00:00:00+00:00" ELSE s

\* Variant of the parse: a string that is no ISO datetime read as the epoch.
FromIsoFormatLenient(s) ==
    IF ReplaceZ(s) \in DOMAIN IsoInstants THEN Parsed(IsoInstants[ReplaceZ(s)])
    ELSE Parsed(0)

\* datetime.fromisoformat(s.replace('Z', '+00:00')): the instant, or
\* ValueError for a string that is no ISO datetime.
FromIsoFormat(s) ==
    IF ReplaceZ(s) \in DOMAIN IsoInstants THEN Parsed(IsoInstants[ReplaceZ(s)])
    ELSE ValueError

\* The field constraints of AnalysisResultSubmission.
ValidSubmission(sub) ==
    /\ sub.analysis_duration_seconds > 0
    /\ sub.total_opportunities_found >= 0

\* AnalysisResultDocument(...) as the handler builds it.
NewAnalysisResult(sub, id) ==
    [ id |-> id,
      analysis_id |-> sub.analysis_id,
      total_opportunities_found |-> sub.total_opportunities_found,
      analysis_duration_seconds |-> sub.analysis_duration_seconds,
      started_at |-> FromIsoFormat(sub.started_at).value,
      completed_at |-> FromIsoFormat(sub.completed_at).value,
      created_at |-> now ]

\* The request model is validated before the handler runs (422).  The
\* handler parses the two timestamps (ValueError: 400), then constructs the
\* document: the constructor of a class that was not passed to init_beanie
\* raises CollectionWasNotInitialized, which "except Exception" turns into
\* a 500 before save() is reached.
SubmitAnalysisResult(sub) ==
    /\ IF ~ValidSubmission(sub)
       THEN /\ analysis_results' = analysis_results
            /\ last' = [op |-> "submit_analysis_result", args |-> sub,
                        status |-> 422, body |-> 0]
       ELSE IF \/ FromIsoFormat(sub.started_at).error
               \/ FromIsoFormat(sub.completed_at).error
       THEN /\ analysis_results' = analysis_results
            /\ last' = [op |-> "submit_analysis_result", args |-> sub,
                        status |-> 400, body |-> 0]
       ELSE IF "AnalysisResultDocument" \notin DocumentModels
       THEN /\ analysis_results' = analysis_results
            /\ last' = [op |-> "submit_analysis_result", args |-> sub,
                        status |-> 500, body |-> 0]
       ELSE /\ analysis_results' =
                  Append(analysis_results,
                         NewAnalysisResult(sub, Len(analysis_results) + 1))
            /\ last' = [op |-> "submit_analysis_result", args |-> sub,
                        status |-> 201, body |-> Len(analysis_results) + 1]
    /\ UNCHANGED <<settings, creating, conn, now, opportunities, multi_exchange, tokens, exchanges, scan>>

----------------------------------------------------------------------------
(* Reads and paginated listings: GET /api/v1/opportunities, /tokens, /exchanges *)

\* Variant of the response: the net return derived again from the stored
\* costs instead of read from the stored field.
OpportunityResponseRecomputed(opp) ==
    [ id |-> opp.id,
      estimated_return_percent |-> opp.estimated_return_percent,
      capital_required_usd |-> opp.capital_required_usd,
      net_return_percent |-> NetReturn(opp),
      token_symbol |-> opp.token_symbol,
      is_executed |-> opp.is_executed,
      created_at |-> opp.created_at ]

\* OpportunityResponse(...) as the read handlers build it from a document.
OpportunityResponse(opp) ==
    [ id |-> opp.id,
      estimated_return_percent |-> opp.estimated_return_percent,
      capital_required_usd |-> opp.capital_required_usd,
      net_return_percent |-> opp.net_return_percent,
      token_symbol |-> opp.token_symbol,
      is_executed |-> opp.is_executed,
      created_at |-> opp.created_at ]

\* OpportunityDocument.get(id) of a well-formed id: the document or None (404).
GetOpportunity(id) ==
    /\ IF id \in DOMAIN opportunities
       THEN last' = [op |-> "get_opportunity", args |-> id, status |-> 200,
                     body |-> OpportunityResponse(opportunities[id])]
       ELSE last' = [op |-> "get_opportunity", args |-> id, status |-> 404,
                     body |-> 0]
    /\ UNCHANGED <<settings, creating, conn, now, stores, scan>>

\* skip = (page - 1) * page_size
Skip(page, page_size) == (page - 1) * page_size

\* Variant of has_next: true also when the page ends exactly at the total.
HasNextInclusive(skip, page_size, total) == skip + page_size <= total

\* has_next = skip + page_size < total
HasNext(skip, page_size, total) == skip + page_size < total

\* cursor.skip(skip).limit(limit) over the sorted result.
SkipLimit(s, skip, limit) ==
    SubSeq(s, skip + 1, IF skip + limit < Len(s) THEN skip + limit ELSE Len(s))

\* The envelope every listing returns.
PageBody(items, total, page, page_size) ==
    [ items |-> SkipLimit(items, Skip(page, page_size), page_size),
      total |-> total,
      page |-> page,
      page_size |-> page_size,
      has_next |-> HasNext(Skip(page, page_size), page_size, total) ]

\* list_opportunities with the default sort (created_at descending) and the
\* token_symbol filter; documents with equal created_at come in any order.
OpportunityPages(page, page_size, token_symbol) ==
    LET found == {i \in DOMAIN opportunities :
                     token_symbol = None
                        \/ opportunities[i].token_symbol = token_symbol}
    IN  {PageBody([k \in DOMAIN q |-> OpportunityResponse(opportunities[q[k]])],
                  Cardinality(found), page, page_size) :
            q \in {o \in Orders(found) :
                     \A i, j \in DOMAIN o :
                        i < j => opportunities[o[i]].created_at
                                     >= opportunities[o[j]].created_at}}

ListOpportunities(page, page_size, token_symbol) ==
    /\ \E body \in OpportunityPages(page, page_size, token_symbol) :
          last' = [op |-> "list_opportunities",
                   args |-> <<page, page_size, token_symbol>>,
                   status |-> 200, body |-> body]
    /\ UNCHANGED <<settings, creating, conn, now, stores, scan>>

\* A client of the document class changes the gas estimate of a stored
\* opportunity and saves it; no route of the service does.
ExternalSetGasCost(i, gas) ==
    /\ i \in DOMAIN opportunities
    /\ opportunities[i].gas_cost_usd # gas
    /\ opportunities' = [opportunities EXCEPT ![i].gas_cost_usd = gas]
    /\ last' = [op |-> "external_set_gas_cost", args |-> <<i, gas>>,
                status |-> 0, body |-> 0]
    /\ UNCHANGED <<settings, creating, conn, now, multi_exchange, tokens, exchanges, analysis_results, scan>>

----------------------------------------------------------------------------
(* Tokens: POST /api/v1/tokens *)

MaxTokens == 3        \* documents in "tokens"

\* The members of ChainType the model uses.
ChainTypes == {"ethereum", "polygon"}

\* TokenCreateRequest's field constraints; a request that breaks one is
\* answered 422 before the handler runs.
ValidTokenRequest(req) ==
    /\ req.symbol # ""
    /\ req.name # ""
    /\ req.chain \in ChainTypes

\* A writer between requests holds no request (the empty record stands for it).
IdleCreate == [pc |-> "idle", req |-> [symbol |-> "", name |-> "", chain |-> ""]]

\* Variant of the store: no unique index on (symbol, chain).
NoSymbolChainIndex(symbol, chain) == {}

\* The unique index on (symbol, chain): the documents that hold the key.
SymbolChainIndex(symbol, chain) ==
    {i \in DOMAIN tokens : tokens[i].symbol = symbol /\ tokens[i].chain = chain}

\* TokenDocument.find_one({"symbol": ..., "chain": ...})
FindOneToken(symbol, chain) ==
    {i \in DOMAIN tokens : tokens[i].symbol = symbol /\ tokens[i].chain = chain}

\* TokenDocument(...) as create_token builds it.
NewToken(req, id) ==
    [ id |-> id,
      symbol |-> req.symbol,
      name |-> req.name,
      chain |-> req.chain,
      is_active |-> TRUE ]

\* create_token up to its first await: the request model, then find_one and
\* the 409 of an existing token.
CreateTokenFind(w, req) ==
    /\ creating[w].pc = "idle"
    /\ IF ~ValidTokenRequest(req)
       THEN /\ creating' = creating
            /\ last' = [op |-> "create_token", args |-> req, status |-> 422, body |-> 0]
       ELSE IF FindOneToken(req.symbol, req.chain) # {}
       THEN /\ creating' = creating
            /\ last' = [op |-> "create_token", args |-> req, status |-> 409, body |-> 0]
       ELSE /\ creating' = [creating EXCEPT ![w] = [pc |-> "save", req |-> req]]
            /\ last' = [op |-> "create_token_find", args |-> req, status |-> 0, body |-> 0]
    /\ UNCHANGED <<settings, conn, now, stores, scan>>

\* create_token from token.save(): the insert, or the DuplicateKeyError of
\* the unique index, which the handler's "except Exception" answers 500.
CreateTokenSave(w) ==
    /\ creating[w].pc = "save"
    /\ Len(tokens) < MaxTokens
    /\ LET req == creating[w].req IN
       IF SymbolChainIndex(req.symbol, req.chain) # {}
       THEN /\ tokens' = tokens
            /\ last' = [op |-> "create_token", args |-> req, status |-> 500, body |-> 0]
       ELSE /\ tokens' = Append(tokens, NewToken(req, Len(tokens) + 1))
            /\ last' = [op |-> "create_token", args |-> req, status |-> 200,
                        body |-> Len(tokens) + 1]
    /\ creating' = [creating EXCEPT ![w] = IdleCreate]
    /\ UNCHANGED <<settings, conn, now, opportunities, multi_exchange, exchanges,
                   analysis_results, scan>>

\* The order of the strings the model sorts on (code points: upper case
\* before lower case).
StringRank(str) ==
    CASE str = "BTC" -> 1
      [] str = "ETH" -> 2
      [] str = "binance" -> 3
      [] str = "uniswap" -> 4
      [] OTHER -> 5

\* list_multi_exchange_opportunities with the symbol filter: sorted on
\* best_overall_return, descending.
MultiExchangePages(page, page_size, symbol) ==
    LET found == {i \in DOMAIN multi_exchange :
                     symbol = None \/ multi_exchange[i].symbol = symbol}
    IN  {PageBody([k \in DOMAIN q |->
                      [symbol |-> multi_exchange[q[k]].symbol,
                       total_opportunities |-> multi_exchange[q[k]].total_opportunities,
                       best_overall_return |-> multi_exchange[q[k]].best_overall_return,
                       priority |-> multi_exchange[q[k]].priority]],
                  Cardinality(found), page, page_size) :
            q \in {o \in Orders(found) :
                     \A i, j \in DOMAIN o :
                        i < j => multi_exchange[o[i]].best_overall_return
                                     >= multi_exchange[o[j]].best_overall_return}}

ListMultiExchangeOpportunities(page, page_size, symbol) ==
    /\ \E body \in MultiExchangePages(page, page_size, symbol) :
          last' = [op |-> "list_multi_exchange_opportunities",
                   args |-> <<page, page_size, symbol>>,
                   status |-> 200, body |-> body]
    /\ UNCHANGED <<settings, creating, conn, now, stores, scan>>

\* list_tokens with the chain filter: sorted on symbol, ascending.
TokenPages(page, page_size, chain) ==
    LET found == {i \in DOMAIN tokens : chain = None \/ tokens[i].chain = chain}
    IN  {PageBody([k \in DOMAIN q |-> tokens[q[k]]],
                  Cardinality(found), page, page_size) :
            q \in {o \in Orders(found) :
                     \A i, j \in DOMAIN o :
                        i < j => StringRank(tokens[o[i]].symbol)
                                     <= StringRank(tokens[o[j]].symbol)}}

ListTokens(page, page_size, chain) ==
    /\ \E body \in TokenPages(page, page_size, chain) :
          last' = [op |-> "list_tokens", args |-> <<page, page_size, chain>>,
                   status |-> 200, body |-> body]
    /\ UNCHANGED <<settings, creating, conn, now, stores, scan>>

\* list_exchanges without a filter: sorted on name, ascending.
ExchangePages(page, page_size) ==
    {PageBody([k \in DOMAIN q |-> exchanges[q[k]]],
              Len(exchanges), page, page_size) :
        q \in {o \in Orders(DOMAIN exchanges) :
                 \A i, j \in DOMAIN o :
                    i < j => StringRank(exchanges[o[i]].name)
                                 <= StringRank(exchanges[o[j]].name)}}

ListExchanges(page, page_size) ==
    /\ \E body \in ExchangePages(page, page_size) :
          last' = [op |-> "list_exchanges", args |-> <<page, page_size, None>>,
                   status |-> 200, body |-> body]
    /\ UNCHANGED <<settings, creating, conn, now, stores, scan>>

----------------------------------------------------------------------------
(* DatabaseManager and the application lifespan *)

\* _client and _database hold the number of a created client; 0 is None.
NoClient == 0

IdleTask == [pc |-> "idle", client |-> NoClient]

\* disconnect(): with a client set, close it and clear the three fields;
\* with none, nothing.
DisconnectedManager(m) ==
    IF m._client # NoClient
    THEN [_client |-> NoClient, _database |-> NoClient, _is_connected |-> FALSE]
    ELSE m

ClosedClients(m, cl) ==
    IF m._client # NoClient THEN [cl EXCEPT ![m._client] = "closed"] ELSE cl

\* The lifespan's continuation when its init_database returns, raises, or
\* is suspended: yield; "except: raise" and "finally: close_database()".
AppAfterConnect(t) ==
    IF t = "lifespan" THEN [app EXCEPT !.pc = "serving"] ELSE app

\* Variant of the lifespan: a startup failure swallowed, nothing closed.
AppAfterFailureSwallowed(t) ==
    IF t = "lifespan"
    THEN [pc |-> "serving", closes |-> app.closes, raised |-> FALSE]
    ELSE app

AppAfterFailure(t) ==
    IF t = "lifespan"
    THEN [pc |-> "failed", closes |-> app.closes + 1, raised |-> TRUE]
    ELSE app

AppAwaiting(t) ==
    IF t = "lifespan" THEN [app EXCEPT !.pc = "starting"] ELSE app

\* connect's "except Exception": disconnect, then raise ConnectionError,
\* which the exception handler of a request answers 503.  The lifespan's
\* "finally" calls close_database, a second disconnect, in the same step.
ConnectFailed(t) ==
    LET m1 == DisconnectedManager(db_manager)
        c1 == ClosedClients(db_manager, clients)
    IN  /\ db_manager' = IF t = "lifespan" THEN DisconnectedManager(m1) ELSE m1
        /\ clients' = IF t = "lifespan" THEN ClosedClients(m1, c1) ELSE c1
        /\ app' = AppAfterFailure(t)
        /\ tasks' = [tasks EXCEPT ![t] = IdleTask]
        /\ last' = [op |-> "connect", args |-> t, status |-> 503,
                    body |-> "ConnectionError"]

\* connect up to its first await, called by get_database or init_database:
\* the early return of a connected manager, the creation of the client
\* (which may raise), the database handle, and the ping sent.
ConnectStart(t, created) ==
    /\ tasks[t].pc = "idle"
    /\ t = "lifespan" => app.pc = "created"
    /\ IF db_manager._is_connected
       THEN /\ app' = AppAfterConnect(t)
            /\ last' = [op |-> "connect", args |-> t, status |-> 0,
                        body |-> "already connected"]
            /\ UNCHANGED <<db_manager, clients, tasks>>
       ELSE IF ~created
       THEN ConnectFailed(t)
       ELSE /\ Len(clients) < MaxClients
            /\ clients' = Append(clients, "open")
            /\ db_manager' = [db_manager EXCEPT !._client = Len(clients) + 1,
                                                !._database = Len(clients) + 1]
            /\ tasks' = [tasks EXCEPT ![t] = [pc |-> "ping",
                                              client |-> Len(clients) + 1]]
            /\ app' = AppAwaiting(t)
            /\ last' = [op |-> "connect_ping", args |-> t, status |-> 0,
                        body |-> Len(clients) + 1]
    /\ UNCHANGED <<settings, creating, now, stores, scan, server_up>>

\* connect resumed after the ping: on success init_beanie is called with
\* the database handle the manager holds now (None raises at once).
PingDone(t, ok) ==
    /\ tasks[t].pc = "ping"
    /\ ok => server_up
    /\ IF ok /\ db_manager._database # NoClient
       THEN /\ tasks' = [tasks EXCEPT ![t] = [pc |-> "init_beanie",
                                              client |-> db_manager._database]]
            /\ last' = [op |-> "connect_init_beanie", args |-> t, status |-> 0,
                        body |-> db_manager._database]
            /\ UNCHANGED <<db_manager, clients, app>>
       ELSE ConnectFailed(t)
    /\ UNCHANGED <<settings, creating, now, stores, scan, server_up>>

\* connect resumed after init_beanie: _is_connected = True, or the failure.
InitBeanieDone(t, ok) ==
    /\ tasks[t].pc = "init_beanie"
    /\ ok => server_up
    /\ IF ok
       THEN /\ db_manager' = [db_manager EXCEPT !._is_connected = TRUE]
            /\ tasks' = [tasks EXCEPT ![t] = IdleTask]
            /\ app' = AppAfterConnect(t)
            /\ last' = [op |-> "connect", args |-> t, status |-> 0,
                        body |-> "connected"]
            /\ UNCHANGED clients
       ELSE ConnectFailed(t)
    /\ UNCHANGED <<settings, creating, now, stores, scan, server_up>>

\* disconnect() called through close_database; it never awaits.
Disconnect(t) ==
    /\ tasks[t].pc = "idle"
    /\ db_manager' = DisconnectedManager(db_manager)
    /\ clients' = ClosedClients(db_manager, clients)
    /\ last' = [op |-> "disconnect", args |-> t, status |-> 0, body |-> 0]
    /\ UNCHANGED <<settings, creating, now, stores, scan, server_up, tasks, app>>

\* health_check up to its await: False at once without a connection,
\* else the ping sent on the client.
HealthCheckStart(t) ==
    /\ tasks[t].pc = "idle"
    /\ IF ~db_manager._is_connected \/ db_manager._client = NoClient
       THEN /\ tasks' = tasks
            /\ last' = [op |-> "health_check", args |-> t, status |-> 0,
                        body |-> FALSE]
       ELSE /\ tasks' = [tasks EXCEPT ![t] = [pc |-> "health_ping",
                                              client |-> db_manager._client]]
            /\ last' = [op |-> "health_check_ping", args |-> t, status |-> 0,
                        body |-> db_manager._client]
    /\ UNCHANGED <<settings, creating, now, stores, scan, db_manager, clients,
                   server_up, app>>

\* health_check resumed: True if the ping answered, False if it raised.
HealthPingDone(t, ok) ==
    /\ tasks[t].pc = "health_ping"
    /\ ok => server_up
    /\ tasks' = [tasks EXCEPT ![t] = IdleTask]
    /\ last' = [op |-> "health_check", args |-> t, status |-> 0, body |-> ok]
    /\ UNCHANGED <<settings, creating, now, stores, scan, db_manager, clients,
                   server_up, app>>

\* The MongoDB server becomes unreachable, or reachable again.
ServerDown ==
    /\ server_up
    /\ server_up' = FALSE
    /\ last' = [op |-> "server_down", args |-> 0, status |-> 0, body |-> 0]
    /\ UNCHANGED <<settings, creating, now, stores, scan, db_manager, clients, tasks, app>>

ServerUp ==
    /\ ~server_up
    /\ server_up' = TRUE
    /\ last' = [op |-> "server_up", args |-> 0, status |-> 0, body |-> 0]
    /\ UNCHANGED <<settings, creating, now, stores, scan, db_manager, clients, tasks, app>>

\* The lifespan's shutdown after the yield: "finally: close_database()".
LifespanShutdown ==
    /\ app.pc = "serving"
    /\ tasks["lifespan"].pc = "idle"
    /\ db_manager' = DisconnectedManager(db_manager)
    /\ clients' = ClosedClients(db_manager, clients)
    /\ app' = [app EXCEPT !.pc = "stopped", !.closes = app.closes + 1]
    /\ last' = [op |-> "shutdown", args |-> 0, status |-> 0, body |-> 0]
    /\ UNCHANGED <<settings, creating, now, stores, scan, server_up, tasks>>

\* A query of a request served by a connected manager (get_database returns
\* the handle at once).  With the server unreachable the query raises, and
\* the handler's "except Exception" answers 500 with its own detail.
GetAnalyticsOverviewServed(days) ==
    /\ db_manager._is_connected
    /\ IF server_up
       THEN GetAnalyticsOverview(days)
       ELSE /\ last' = [op |-> "get_analytics_overview", args |-> days,
                        status |-> 500,
                        body |-> "Failed to retrieve analytics overview"]
            /\ UNCHANGED <<settings, creating, conn, now, stores, scan>>

GetAnalysisHistoryServed(days, limit) ==
    /\ db_manager._is_connected
    /\ IF server_up
       THEN GetAnalysisHistory(days, limit)
       ELSE /\ last' = [op |-> "get_analysis_history", args |-> <<days, limit>>,
                        status |-> 500, body |-> <<>>]
            /\ UNCHANGED <<settings, creating, conn, now, stores, scan>>

\* create_opportunity served likewise: the save raises, answered 500.
CreateOpportunityServed(req) ==
    /\ db_manager._is_connected
    /\ IF server_up
       THEN CreateOpportunity(req)
       ELSE /\ last' = [op |-> "create_opportunity", args |-> req,
                        status |-> IF ValidOpportunityRequest(req) THEN 500 ELSE 422,
                        body |-> 0]
            /\ UNCHANGED <<settings, creating, conn, now, stores, scan>>

\* GET /health/readiness while the application serves: db_manager.health_check().
ReadinessCheck(t) ==
    /\ app.pc = "serving"
    /\ HealthCheckStart(t)

\* The process before the lifespan starts: DatabaseManager() as constructed.
Constructed ==
    /\ db_manager = [_client |-> NoClient, _database |-> NoClient,
                     _is_connected |-> FALSE]
    /\ clients = <<>>
    /\ server_up = TRUE
    /\ tasks = [t \in Tasks |-> IdleTask]
    /\ app = [pc |-> "created", closes |-> 0, raised |-> FALSE]

\* The service as the handlers find it: the lifespan ran init_database.
Started ==
    /\ db_manager = [_client |-> 1, _database |-> 1, _is_connected |-> TRUE]
    /\ clients = <<"open">>
    /\ server_up = TRUE
    /\ tasks = [t \in Tasks |-> IdleTask]
    /\ app = [pc |-> "serving", closes |-> 0, raised |-> FALSE]

----------------------------------------------------------------------------
(* Specifications *)

\* OpportunityConfig.minimum_return_percent, 6.0
minimum_return_percent == 600

\* Settings() with nothing set in the environment.
DefaultSettings == [minimum_return_percent |-> minimum_return_percent]

Init ==
    /\ settings = DefaultSettings
    /\ now = 0
    /\ opportunities = <<>>
    /\ multi_exchange = <<>>
    /\ tokens = <<>>
    /\ exchanges = <<>>
    /\ analysis_results = <<>>
    /\ scan = [w \in Writers |-> IdleScan]
    /\ creating = [w \in Writers |-> IdleCreate]
    /\ Started
    /\ last = [op |-> "none", args |-> 0, status |-> 0, body |-> 0]

Exchanges2 == <<"binance", "uniswap">>

\* Requests of POST /opportunities, the invalid ones included.
IngestRequests ==
    [ estimated_return_percent : {-100, 800},
      capital_required_usd : {0, 200, 500},
      duration_hours : {0, 24},
      source_exchanges : {<<>>, Exchanges2},
      token_symbol : {"ETH"},
      gas_cost_usd : {0, 35},
      trading_fees_percent : {60} ]

\* Multi-exchange documents as a writer constructs them.
MultiPayload(sym, sup, pairs, best, total, bor, prio) ==
    [ symbol |-> sym,
      supported_exchanges |-> sup,
      exchange_pair_opportunities |-> pairs,
      best_spreads_per_pair |-> best,
      priority |-> prio,
      scan_frequency |-> 24,
      total_opportunities |-> total,
      best_overall_return |-> bor,
      analysis_timestamp |-> now ]

IngestMultiPayloads ==
    {MultiPayload("ETH", sup, EmptyDict, EmptyDict, 0, 0, "low") :
        sup \in {<<"binance">>, Exchanges2}}

NextIngest ==
    \/ \E req \in IngestRequests : CreateOpportunity(req)
    \/ \E d \in IngestMultiPayloads : InsertMultiExchangeOpportunity(d)

SpecIngest == Init /\ [][NextIngest]_vars

PairNames == {"binance->uniswap", "uniswap->binance"}

EntryReturns == {300, 1000}

\* The values a writer may give the derived fields: any value the field's
\* constraint admits, within the bounds.
BestChoices(pairs) ==
    LET K == {k \in DOMAIN pairs : pairs[k] # <<>>}
    IN  {f \in [K -> UNION {Range(pairs[k]) : k \in K}] :
            \A k \in K : f[k] \in Range(pairs[k])}

TotalChoices == 0..MaxPairEntries

ReturnChoices == {0, 300, 700, 1000}

PriorityChoices == {"high", "medium", "low"}

\* The first scan of a token: no pair entry yet, or one.
FirstScanPairs ==
    {EmptyDict} \cup
    {DictPut(EmptyDict, k, <<PairEntry(r, now)>>) : k \in PairNames, r \in EntryReturns}

NextMulti ==
    \/ \E pairs \in FirstScanPairs, total \in TotalChoices,
          bor \in ReturnChoices, prio \in PriorityChoices :
          \E best \in BestChoices(pairs) :
             InsertMultiExchangeOpportunity(
                 MultiPayload("ETH", Exchanges2, pairs, best, total, bor, prio))
    \/ \E w \in Writers : FindOneForScan(w, "ETH")
    \/ \E w \in Writers :
          /\ scan[w].pc = "loaded"
          /\ \E k \in PairNames, r \in EntryReturns, total \in TotalChoices,
                bor \in ReturnChoices, prio \in PriorityChoices :
                \E best \in BestChoices(AppendedPairs(scan[w].doc, k, PairEntry(r, now))) :
                   SaveAppended(w, k, r, best, total, bor, prio)

SpecMulti == Init /\ [][NextMulti]_vars

\* Requests that differ in the return: the overview's figures.
OverviewRequests ==
    [ estimated_return_percent : {400, 800, 1200},
      capital_required_usd : {200},
      duration_hours : {24},
      source_exchanges : {Exchanges2},
      token_symbol : {"ETH"},
      gas_cost_usd : {35},
      trading_fees_percent : {60} ]

Days == {1, 2}

NextOverview ==
    \/ \E req \in OverviewRequests : CreateOpportunity(req)
    \/ \E i \in 1..MaxOpps : ExternalExecute(i)
    \/ Tick
    \/ \E days \in Days : GetAnalyticsOverview(days)

SpecOverview == Init /\ [][NextOverview]_vars

\* Ingestion next to every aggregation.
AnalyticsRequests ==
    [ estimated_return_percent : {800},
      capital_required_usd : {200},
      duration_hours : {24},
      source_exchanges : {Exchanges2},
      token_symbol : {None, "ETH"},
      gas_cost_usd : {35},
      trading_fees_percent : {60} ]

AnalyticsMultiPayloads ==
    {MultiPayload("ETH", Exchanges2,
                  DictPut(EmptyDict, "binance->uniswap", <<PairEntry(1000, now)>>),
                  DictPut(EmptyDict, "binance->uniswap", PairEntry(1000, now)),
                  1, 1000, "high")}

NextAnalytics ==
    \/ \E req \in AnalyticsRequests : CreateOpportunity(req)
    \/ \E d \in AnalyticsMultiPayloads : InsertMultiExchangeOpportunity(d)
    \/ Tick
    \/ \E days \in Days : GetAnalyticsOverview(days)
    \/ \E days \in {1} : GetTokenPerformance(days, 1)
    \/ \E days \in {1} : GetExchangePairAnalytics(days, 1)
    \/ GetExchangeHealthSummary
    \/ \E days \in {1} : GetAnalysisHistory(days, 1)

SpecAnalytics == Init /\ [][NextAnalytics]_vars

\* Requests that differ in the token and the return: the token groups.
TokenRequests ==
    { [ estimated_return_percent |-> est,
        capital_required_usd |-> IF sym = "BTC" THEN 500 ELSE 200,
        duration_hours |-> 24,
        source_exchanges |-> Exchanges2,
        token_symbol |-> sym,
        gas_cost_usd |-> 35,
        trading_fees_percent |-> 60 ] :
      est \in {400, 800}, sym \in {None, "ETH", "BTC"} }

Limits == {1, 2}

NextTokens ==
    \/ \E req \in TokenRequests : CreateOpportunity(req)
    \/ Tick
    \/ \E days \in Days, limit \in Limits : GetTokenPerformance(days, limit)

SpecTokens == Init /\ [][NextTokens]_vars

\* The values WIGGLE_OPPORTUNITY_MINIMUM_RETURN_PERCENT may give the setting
\* (any float from 0.1): the default and one below it.
MinimumReturnChoices == {500, minimum_return_percent}

\* The service started with the setting read from the environment.
InitConfigured ==
    /\ settings \in [minimum_return_percent : MinimumReturnChoices]
    /\ now = 0
    /\ opportunities = <<>>
    /\ multi_exchange = <<>>
    /\ tokens = <<>>
    /\ exchanges = <<>>
    /\ analysis_results = <<>>
    /\ scan = [w \in Writers |-> IdleScan]
    /\ creating = [w \in Writers |-> IdleCreate]
    /\ Started
    /\ last = [op |-> "none", args |-> 0, status |-> 0, body |-> 0]

\* The return_percent of the entries of one pair list.
PairLists == {<<>>, <<533>>, <<600>>, <<400, 400, 800>>, <<500, 750, -200>>}

PairsDocument(sym, f) ==
    MultiPayload(sym, Exchanges2,
                 [k \in DOMAIN f |-> [i \in DOMAIN f[k] |-> PairEntry(f[k][i], now)]],
                 EmptyDict, 0, 0, "low")

\* Documents of two tokens: one with any of the lists under any of the pair
\* names, one that adds to the first pair name.
PairsPayloads ==
    { PairsDocument("ETH", f) :
        f \in UNION {[S -> PairLists] : S \in SUBSET PairNames} }
    \cup
    { PairsDocument("BTC", f) :
        f \in UNION {[S -> {<<>>, <<750>>}] : S \in SUBSET {"binance->uniswap"}} }

NextPairs ==
    \/ \E d \in PairsPayloads : InsertMultiExchangeOpportunity(d)
    \/ Tick
    \/ \E days \in Days, limit \in Limits : GetExchangePairAnalytics(days, limit)

SpecPairs == InitConfigured /\ [][NextPairs]_vars

\* Exchange documents around the limits of the health summary.
ExchangePayloads ==
    [ name : {"binance", "uniswap"},
      is_active : BOOLEAN,
      consecutive_errors : {-1, 2, 3},
      total_requests : {0, 3},
      total_errors : {0, 1} ]

NextHealth ==
    \/ \E d \in ExchangePayloads : InsertExchange(d)
    \/ \E d \in ExchangePayloads : SaveExchange(d)
    \/ GetExchangeHealthSummary

SpecHealth == Init /\ [][NextHealth]_vars

\* Submissions of analysis runs: well-formed ones, ones with a field out of
\* range and ones with a timestamp that is no ISO datetime.
TimestampStrings ==
    {"1970-01-01T00:00:00Z", "1970-01-02T00:00:00", "yesterday", ""}

Submissions ==
    [ analysis_id : {"run-1", "run-2"},
      total_opportunities_found : {0},
      analysis_duration_seconds : {0, 5},
      started_at : TimestampStrings,
      completed_at : TimestampStrings ]

NextSubmit ==
    \/ \E sub \in Submissions : SubmitAnalysisResult(sub)
    \/ Tick
    \/ \E days \in Days : GetAnalysisHistory(days, 1)

SpecSubmit == Init /\ [][NextSubmit]_vars

\* Requests with and without a token, read back one by one and page by page.
ReadRequests ==
    { [ estimated_return_percent |-> 800,
        capital_required_usd |-> 500,
        duration_hours |-> 24,
        source_exchanges |-> Exchanges2,
        token_symbol |-> sym,
        gas_cost_usd |-> 35,
        trading_fees_percent |-> 60 ] : sym \in {"ETH", None} }

NextRead ==
    \/ \E req \in ReadRequests : CreateOpportunity(req)
    \/ \E gas \in {70} : ExternalSetGasCost(1, gas)
    \/ \E id \in 1..(MaxOpps + 1) : GetOpportunity(id)
    \/ \E sym \in {"ETH", None} : ListOpportunities(1, 2, sym)
    \/ Tick

SpecRead == Init /\ [][NextRead]_vars

\* Token requests: two symbols on two chains, and one the request model refuses.
TokenCreateRequests ==
    [ symbol : {"ETH", "BTC", ""}, name : {"coin"}, chain : ChainTypes ]

NextCreateTokens ==
    \/ \E w \in Writers, req \in TokenCreateRequests : CreateTokenFind(w, req)
    \/ \E w \in Writers : CreateTokenSave(w)

SpecCreateTokens == Init /\ [][NextCreateTokens]_vars

\* The process from the construction of the manager on.
InitManager ==
    /\ settings = DefaultSettings
    /\ now = 0
    /\ opportunities = <<>>
    /\ multi_exchange = <<>>
    /\ tokens = <<>>
    /\ exchanges = <<>>
    /\ analysis_results = <<>>
    /\ scan = [w \in Writers |-> IdleScan]
    /\ creating = [w \in Writers |-> IdleCreate]
    /\ Constructed
    /\ last = [op |-> "none", args |-> 0, status |-> 0, body |-> 0]

Callers == {"t1", "t2", "t3"}

\* Calls of connect (through get_database), disconnect and health_check by
\* concurrent tasks, in any interleaving of their steps.
NextManager ==
    \/ \E t \in Callers, created \in BOOLEAN : ConnectStart(t, created)
    \/ \E t \in Callers, ok \in BOOLEAN : PingDone(t, ok)
    \/ \E t \in Callers, ok \in BOOLEAN : InitBeanieDone(t, ok)
    \/ \E t \in Callers : Disconnect(t)
    \/ \E t \in Callers : HealthCheckStart(t)
    \/ \E t \in Callers, ok \in BOOLEAN : HealthPingDone(t, ok)
    \/ ServerDown
    \/ ServerUp

SpecManager == InitManager /\ [][NextManager]_vars

\* Requests served while the server comes and goes; the first of them
\* connects through get_database.
NextStore ==
    \/ \E created \in BOOLEAN : ConnectStart("t1", created)
    \/ \E ok \in BOOLEAN : PingDone("t1", ok)
    \/ \E ok \in BOOLEAN : InitBeanieDone("t1", ok)
    \/ ServerDown
    \/ ServerUp
    \/ \E req \in ReadRequests : CreateOpportunityServed(req)
    \/ \E days \in Days : GetAnalyticsOverviewServed(days)
    \/ \E days \in Days : GetAnalysisHistoryServed(days, 1)

SpecStore == InitManager /\ [][NextStore]_vars

\* Every derivation that divides, on inputs at and around a zero
\* denominator: no capital, an empty window, a pair without observations,
\* exchanges without requests.
DeriveRequests ==
    { [ estimated_return_percent |-> 800,
        capital_required_usd |-> capital,
        duration_hours |-> 24,
        source_exchanges |-> Exchanges2,
        token_symbol |-> "ETH",
        gas_cost_usd |-> 35,
        trading_fees_percent |-> 60 ] : capital \in {0, 500} }

DerivePayloads ==
    { PairsDocument(sym, f) :
        sym \in {"ETH", "BTC"},
        f \in UNION {[S -> {<<>>, <<750>>}] : S \in SUBSET {"binance->uniswap"}} }

DeriveExchanges ==
    [ name : {"binance", "uniswap"},
      is_active : {TRUE},
      consecutive_errors : {0},
      total_requests : {0, 3},
      total_errors : {0} ]

NextDerive ==
    \/ \E req \in DeriveRequests : CreateOpportunity(req)
    \/ \E d \in DerivePayloads : InsertMultiExchangeOpportunity(d)
    \/ \E d \in DeriveExchanges : InsertExchange(d)
    \/ GetAnalyticsOverview(1)
    \/ GetExchangePairAnalytics(1, 2)
    \/ GetExchangeHealthSummary

SpecDerive == Init /\ [][NextDerive]_vars

\* The application from start to stop: the lifespan's startup, requests and
\* health checks while it serves, the server coming and going, the shutdown.
NextLifespan ==
    \/ \E created \in BOOLEAN : ConnectStart("lifespan", created)
    \/ \E ok \in BOOLEAN : PingDone("lifespan", ok)
    \/ \E ok \in BOOLEAN : InitBeanieDone("lifespan", ok)
    \/ \E t \in {"t1", "t2"} : ReadinessCheck(t)
    \/ \E t \in {"t1", "t2"}, ok \in BOOLEAN : HealthPingDone(t, ok)
    \/ \E req \in ReadRequests : CreateOpportunityServed(req)
    \/ \E days \in Days : GetAnalyticsOverviewServed(days)
    \/ ServerDown
    \/ ServerUp
    \/ LifespanShutdown

SpecLifespan == InitManager /\ [][NextLifespan]_vars

\* The four listings, page by page, over stores of up to a few records.
Pages == {1, 2}

PageSizes == {1, 2}

PageTokenRequests ==
    { [symbol |-> sym, name |-> "coin", chain |-> "ethereum"] :
        sym \in {"ETH", "BTC"} }

PageMultiPayloads ==
    { MultiPayload(sym, Exchanges2, EmptyDict, EmptyDict, 0, 700, "low") :
        sym \in {"ETH", "BTC"} }

PageExchanges ==
    [ name : {"binance", "uniswap"},
      is_active : {TRUE},
      consecutive_errors : {0},
      total_requests : {3},
      total_errors : {0} ]

PageRequests == {req \in ReadRequests : req.token_symbol = "ETH"}

NextPages ==
    \/ \E req \in PageRequests : CreateOpportunity(req)
    \/ \E d \in PageMultiPayloads : InsertMultiExchangeOpportunity(d)
    \/ \E req \in PageTokenRequests : CreateTokenFind("w1", req)
    \/ CreateTokenSave("w1")
    \/ \E d \in PageExchanges : InsertExchange(d)
    \/ \E page \in Pages, page_size \in PageSizes :
          ListOpportunities(page, page_size, None)
    \/ \E page \in Pages, page_size \in PageSizes, sym \in {"ETH", None} :
          ListMultiExchangeOpportunities(page, page_size, sym)
    \/ \E page \in Pages, page_size \in PageSizes :
          ListTokens(page, page_size, None)
    \/ \E page \in Pages, page_size \in PageSizes : ListExchanges(page, page_size)

SpecPages == Init /\ [][NextPages]_vars

Next == NextIngest \/ NextMulti \/ NextOverview \/ NextAnalytics \/ NextTokens \/ NextPairs
           \/ NextHealth \/ NextSubmit \/ NextRead \/ NextCreateTokens
           \/ NextManager \/ NextStore \/ NextDerive
           \/ NextLifespan \/ NextPages

Spec == Init /\ [][Next]_vars

----------------------------------------------------------------------------
(* Claims *)

\* C1: every accepted create_opportunity request stores a document that
\* holds the request's own inputs and whose net_return_percent equals
\* estimated_return_percent - gas_cost_usd / capital_required_usd * 100
\* - trading_fees_percent of those inputs; every stored document keeps
\* that relation.
C1_NetReturnStored ==
    /\ \A i \in DOMAIN opportunities :
          LET o == opportunities[i]
          IN  /\ o.capital_required_usd > 0
              /\ o.net_return_percent.den > 0
              /\ o.net_return_percent.num * o.capital_required_usd =
                    ( o.estimated_return_percent * o.capital_required_usd
                      - 10000 * o.gas_cost_usd
                      - o.trading_fees_percent * o.capital_required_usd )
                    * o.net_return_percent.den
    /\ (last.op = "create_opportunity" /\ last.status = 200) =>
          LET o == opportunities[last.body]
              req == last.args
          IN  /\ last.body = Len(opportunities)
              /\ o.estimated_return_percent = req.estimated_return_percent
              /\ o.capital_required_usd = req.capital_required_usd
              /\ o.gas_cost_usd = req.gas_cost_usd
              /\ o.trading_fees_percent = req.trading_fees_percent

\* C1 witness: a request with 35 dollars of gas on 200 dollars of capital
\* was accepted: 8.00 - 17.50 - 0.60 = -10.10 percent.
C1_Witness ==
    /\ last.op = "create_opportunity"
    /\ last.status = 200
    /\ last.args.gas_cost_usd = 35
    /\ last.args.capital_required_usd = 200
    /\ RatEq(opportunities[last.body].net_return_percent, Rat(-1010, 1))

\* C2: a create request with capital_required_usd <= 0, duration_hours <= 0,
\* no source exchange or a negative estimated return, and a multi-exchange
\* document with fewer than two supported exchanges, is refused and leaves
\* every collection as it was.
C2_RejectedNotPersisted ==
    [][ ( \/ /\ last'.op = "create_opportunity"
             /\ \/ last'.args.capital_required_usd <= 0
                \/ last'.args.duration_hours <= 0
                \/ last'.args.source_exchanges = <<>>
                \/ last'.args.estimated_return_percent < 0
          \/ /\ last'.op = "insert_multi_exchange"
             /\ Len(last'.args.supported_exchanges) < 2 )
        => (last'.status = 422 /\ stores' = stores) ]_vars

\* C2 witness: a request with no capital was refused while the collection
\* held a document.
C2_Witness ==
    /\ last.op = "create_opportunity"
    /\ last.status = 422
    /\ last.args.capital_required_usd = 0
    /\ last.args.estimated_return_percent >= 0
    /\ last.args.duration_hours > 0
    /\ last.args.source_exchanges # <<>>
    /\ Len(opportunities) > 0

MaxReturn(list) == MaxSeq([i \in DOMAIN list |-> list[i].return_percent])

BestIsMax(d) ==
    \A k \in DOMAIN d.exchange_pair_opportunities :
       LET list == d.exchange_pair_opportunities[k]
       IN  list # <<>> =>
              /\ k \in DOMAIN d.best_spreads_per_pair
              /\ d.best_spreads_per_pair[k] \in Range(list)
              /\ d.best_spreads_per_pair[k].return_percent = MaxReturn(list)

\* C3: in every stored multi-exchange document and for every pair key k,
\* best_spreads_per_pair[k] is the entry of exchange_pair_opportunities[k]
\* with the greatest return_percent.
C3_BestSpreadIsMax ==
    \A i \in DOMAIN multi_exchange : BestIsMax(multi_exchange[i])

\* C4: in every stored multi-exchange document total_opportunities is the
\* sum of the lengths of its pair lists.
C4_TotalIsSum ==
    \A i \in DOMAIN multi_exchange :
       multi_exchange[i].total_opportunities =
          PairEntryCount(multi_exchange[i].exchange_pair_opportunities)

IsPrefix(s, t) == Len(s) <= Len(t) /\ SubSeq(t, 1, Len(s)) = s

\* C5: a stored multi-exchange document only grows: every pair list it
\* held is a prefix of the list it holds after any step, and a step that
\* changes the document leaves its derived fields computed over all the
\* entries it now holds.
C5_AppendOnly ==
    [][ \A i \in DOMAIN multi_exchange :
           LET old == multi_exchange[i]
               new == multi_exchange'[i]
           IN  /\ \A k \in DOMAIN old.exchange_pair_opportunities :
                     /\ k \in DOMAIN new.exchange_pair_opportunities
                     /\ IsPrefix(old.exchange_pair_opportunities[k],
                                 new.exchange_pair_opportunities[k])
               /\ new # old =>
                     /\ BestIsMax(new)
                     /\ new.total_opportunities =
                           PairEntryCount(new.exchange_pair_opportunities) ]_vars

Occurrences(list, e) == Cardinality({j \in DOMAIN list : list[j] = e})

\* C6: whatever the interleaving of two scans of a token, the entry each
\* writer appended and saved is in the stored document.
C6_NoLostAppend ==
    \A w \in Writers :
       scan[w].pc = "saved" =>
          LET d == multi_exchange[scan[w].id]
              same == {v \in Writers : /\ scan[v].pc = "saved"
                                       /\ scan[v].id = scan[w].id
                                       /\ scan[v].key = scan[w].key
                                       /\ scan[v].entry = scan[w].entry}
          IN  Occurrences(DictGet(d.exchange_pair_opportunities, scan[w].key),
                          scan[w].entry) >= Cardinality(same)

\* OpportunityConfig.high_priority_return_threshold, 10.0
high_priority_return_threshold == 1000

\* OpportunityConfig.medium_priority_return_threshold, 5.0
medium_priority_return_threshold == 500

\* C7: the priority of every stored multi-exchange document follows from
\* its best_overall_return: high from 10.0, medium from 5.0, low below.
C7_PriorityFromReturn ==
    \A i \in DOMAIN multi_exchange :
       LET d == multi_exchange[i]
       IN  d.priority =
              IF d.best_overall_return >= high_priority_return_threshold THEN "high"
              ELSE IF d.best_overall_return >= medium_priority_return_threshold
                   THEN "medium"
                   ELSE "low"

AggregationOps ==
    {"get_analytics_overview", "get_token_performance",
     "get_exchange_pair_analytics", "get_exchange_health_summary",
     "get_analysis_history"}

\* C8: a step that serves an aggregation request leaves the five
\* collections as they were, wherever it falls among the other requests.
C8_AggregationsReadOnly ==
    [][ last'.op \in AggregationOps => stores' = stores ]_vars

\* C8 witness: the pair analytics were served while both collections it
\* could touch held documents.
C8_Witness ==
    /\ last.op = "get_exchange_pair_analytics"
    /\ opportunities # <<>>
    /\ multi_exchange # <<>>

InWindowIds(days) ==
    {i \in DOMAIN opportunities :
        /\ now - days <= opportunities[i].created_at
        /\ opportunities[i].created_at <= now}

\* C9: an aggregation over a window that holds no matching record answers
\* with an empty result and no error: the overview with zeros, token
\* performance, pair analytics and the analysis history with empty lists.
C9_EmptyWindowEmptyResult ==
    /\ (last.op = "get_analytics_overview" /\ InWindowIds(last.args) = {}) =>
          /\ last.status = 200
          /\ last.body = [total |-> 0, executed |-> 0, pending |-> 0,
                          average_return |-> 0, max_return |-> 0,
                          unique_tokens |-> 0, unique_exchanges |-> 0]
    /\ ( /\ last.op = "get_token_performance"
         /\ \A i \in InWindowIds(last.args[1]) :
               opportunities[i].token_symbol = None ) =>
          (last.status = 200 /\ last.body = <<>>)
    /\ ( /\ last.op = "get_exchange_pair_analytics"
         /\ \A i \in DOMAIN multi_exchange :
               ~InWindow(multi_exchange[i].analysis_timestamp, last.args[1]) ) =>
          (last.status = 200 /\ last.body = <<>>)
    /\ ( /\ last.op = "get_analysis_history"
         /\ \A i \in DOMAIN analysis_results :
               ~InWindow(analysis_results[i].started_at, last.args[1]) ) =>
          (last.status = 200 /\ last.body = <<>>)

InWindowReturns(days) ==
    {<<i, opportunities[i].estimated_return_percent>> : i \in InWindowIds(days)}

RECURSIVE SumPairs(_)
SumPairs(S) ==
    IF S = {} THEN 0
    ELSE LET x == CHOOSE y \in S : TRUE IN x[2] + SumPairs(S \ {x})

OverviewCounts(days, body) ==
    LET ids == InWindowIds(days)
    IN  /\ body.total = Cardinality(ids)
        /\ body.executed = Cardinality({i \in ids : opportunities[i].is_executed})
        /\ body.pending = body.total - body.executed
        /\ body.executed + body.pending = body.total
        /\ \E i \in ids : body.max_return = opportunities[i].estimated_return_percent
        /\ \A i \in ids : body.max_return >= opportunities[i].estimated_return_percent

\* C10 as stated: the overview of a non-empty window returns the counts,
\* the maximum and, as average_return, the arithmetic mean of the returns.
C10_OverviewExactMean ==
    (last.op = "get_analytics_overview" /\ InWindowIds(last.args) # {}) =>
       /\ OverviewCounts(last.args, last.body)
       /\ last.body.average_return * Cardinality(InWindowIds(last.args)) =
             SumPairs(InWindowReturns(last.args))

\* C10 as amended: the overview of a non-empty window returns total,
\* executed, pending = total - executed and the maximum return, and as
\* average_return the arithmetic mean rounded to two decimals (at most half
\* a hundredth away from the mean); [4.0, 8.0, 12.0] give 8.0 and 12.0.
C10_OverviewRoundedMean ==
    (last.op = "get_analytics_overview" /\ InWindowIds(last.args) # {}) =>
       LET n == Cardinality(InWindowIds(last.args))
           diff == last.body.average_return * n - SumPairs(InWindowReturns(last.args))
       IN  /\ OverviewCounts(last.args, last.body)
           /\ 2 * diff <= n
           /\ 2 * diff >= -n
           /\ ( {r[2] : r \in InWindowReturns(last.args)} = {400, 800, 1200} /\ n = 3 ) =>
                 (last.body.average_return = 800 /\ last.body.max_return = 1200)

\* C10 witness: the overview of the three returns 4.0, 8.0 and 12.0, one of
\* them executed.
C10_Witness ==
    /\ last.op = "get_analytics_overview"
    /\ last.body.total = 3
    /\ last.body.executed = 1
    /\ last.body.pending = 2
    /\ last.body.average_return = 800
    /\ last.body.max_return = 1200
    /\ {opportunities[i].estimated_return_percent : i \in DOMAIN opportunities}
          = {400, 800, 1200}

\* C11: the overview counts exactly the records whose created_at lies in
\* the half-open window [start, end), start = end - days: a record created
\* at start is counted, a record created at end is not.
C11_HalfOpenWindow ==
    (last.op = "get_analytics_overview" /\ last.status = 200) =>
       last.body.total =
          Cardinality({i \in DOMAIN opportunities :
                          /\ now - last.args <= opportunities[i].created_at
                          /\ opportunities[i].created_at < now})

GroupIds(days, sym) ==
    {i \in InWindowIds(days) : opportunities[i].token_symbol = sym}

GroupReturns(days, sym) ==
    {<<i, opportunities[i].estimated_return_percent>> : i \in GroupIds(days, sym)}

GroupCapital(days, sym) ==
    {<<i, opportunities[i].capital_required_usd>> : i \in GroupIds(days, sym)}

WindowSymbols(days) ==
    {opportunities[i].token_symbol : i \in InWindowIds(days)} \ {None}

\* The figures of one row other than the mean: the group's symbol, count,
\* maximum return and sum of capital.
TokenRowFigures(days, row) ==
    /\ row.symbol \in WindowSymbols(days)
    /\ row.total_opportunities = Cardinality(GroupIds(days, row.symbol))
    /\ \E i \in GroupIds(days, row.symbol) :
          row.max_return = opportunities[i].estimated_return_percent
    /\ \A i \in GroupIds(days, row.symbol) :
          row.max_return >= opportunities[i].estimated_return_percent
    /\ row.total_volume_usd = SumPairs(GroupCapital(days, row.symbol))

\* One row per symbol, no row for the records without a symbol, and with
\* a limit that cuts nothing every record with a symbol in one row.
TokenGroupsPartition(days, limit, body) ==
    /\ \A i, j \in DOMAIN body : i # j => body[i].symbol # body[j].symbol
    /\ \A i \in DOMAIN body : body[i].symbol # None
    /\ Cardinality(WindowSymbols(days)) <= limit =>
          /\ {body[i].symbol : i \in DOMAIN body} = WindowSymbols(days)
          /\ SumSeq([i \in DOMAIN body |-> body[i].total_opportunities]) =
                Cardinality({i \in InWindowIds(days) :
                                opportunities[i].token_symbol # None})

\* C12 as stated: token performance groups the records of the window by
\* symbol, leaves out the records without one, and reports per symbol the
\* count, the maximum, the sum of capital and, as average_return, the mean
\* of the returns.
C12_TokenGroupsExactMean ==
    (last.op = "get_token_performance" /\ last.status = 200) =>
       /\ TokenGroupsPartition(last.args[1], last.args[2], last.body)
       /\ \A i \in DOMAIN last.body :
             /\ TokenRowFigures(last.args[1], last.body[i])
             /\ last.body[i].average_return
                   * Cardinality(GroupIds(last.args[1], last.body[i].symbol))
                = SumPairs(GroupReturns(last.args[1], last.body[i].symbol))

\* C12 as amended: as above, average_return being the mean of the group's
\* returns rounded to two decimals (at most half a hundredth away from it).
C12_TokenGroupsRoundedMean ==
    (last.op = "get_token_performance" /\ last.status = 200) =>
       /\ TokenGroupsPartition(last.args[1], last.args[2], last.body)
       /\ \A i \in DOMAIN last.body :
             LET n == Cardinality(GroupIds(last.args[1], last.body[i].symbol))
                 diff == last.body[i].average_return * n
                           - SumPairs(GroupReturns(last.args[1], last.body[i].symbol))
             IN  /\ TokenRowFigures(last.args[1], last.body[i])
                 /\ 2 * diff <= n
                 /\ 2 * diff >= -n

\* C12 witness: two groups reported while the window also holds a record
\* without a symbol.
C12_Witness ==
    /\ last.op = "get_token_performance"
    /\ Len(last.body) = 2
    /\ \E i \in InWindowIds(last.args[1]) : opportunities[i].token_symbol = None
    /\ \E i \in DOMAIN last.body : last.body[i].total_volume_usd = 500

\* The mean return of the first group is at least that of the second.
MeanGeq(days, a, b) ==
    SumPairs(GroupReturns(days, a)) * Cardinality(GroupIds(days, b))
       >= SumPairs(GroupReturns(days, b)) * Cardinality(GroupIds(days, a))

\* C13: the token performance result is in descending order of mean
\* return and holds at most limit rows; when the window has more groups than
\* the limit, no group left out has a higher mean return than a group
\* returned.
C13_TokenSortedAndLimited ==
    (last.op = "get_token_performance" /\ last.status = 200) =>
       LET days == last.args[1]
           limit == last.args[2]
           body == last.body
           returned == {body[i].symbol : i \in DOMAIN body}
           groups == Cardinality(WindowSymbols(days))
       IN  /\ Len(body) <= limit
           /\ Len(body) = IF groups < limit THEN groups ELSE limit
           /\ \A i, j \in DOMAIN body :
                 i < j => /\ MeanGeq(days, body[i].symbol, body[j].symbol)
                          /\ body[i].average_return >= body[j].average_return
           /\ \A out \in WindowSymbols(days) \ returned :
                 \A kept \in returned : MeanGeq(days, kept, out)

\* C13 witness: two groups of different mean return and a limit of one; the
\* row returned is the group of the higher mean.
C13_Witness ==
    /\ last.op = "get_token_performance"
    /\ last.args[2] = 1
    /\ Len(last.body) = 1
    /\ \E out \in WindowSymbols(last.args[1]) :
          /\ out # last.body[1].symbol
          /\ ~MeanGeq(last.args[1], out, last.body[1].symbol)

InWindowDocs(days) ==
    {d \in DOMAIN multi_exchange :
        /\ now - days <= multi_exchange[d].analysis_timestamp
        /\ multi_exchange[d].analysis_timestamp <= now}

\* The observations of pair k in the documents of the window, each with the
\* place it is stored at.
PairObservations(days, k) ==
    {<<<<d, i>>, multi_exchange[d].exchange_pair_opportunities[k][i].return_percent>> :
        <<d, i>> \in {x \in InWindowDocs(days) \X (1..3) :
                        /\ k \in DOMAIN multi_exchange[x[1]].exchange_pair_opportunities
                        /\ x[2] \in DOMAIN multi_exchange[x[1]].exchange_pair_opportunities[k]}}

\* C14: for every pair reported, success_rate is the share (in percent, to
\* two decimals) of its observations whose return_percent is strictly
\* greater than the configured profitability threshold, and lies in [0, 100].
C14_SuccessRate ==
    (last.op = "get_exchange_pair_analytics" /\ last.status = 200) =>
       \A r \in DOMAIN last.body :
          LET row == last.body[r]
              obs == PairObservations(last.args[1], row.pair_name)
              n == Cardinality(obs)
              succ == Cardinality({o \in obs : o[2] > settings.minimum_return_percent})
              diff == row.success_rate * n - succ * 100 * 100
          IN  /\ n > 0
              /\ 2 * diff <= n
              /\ 2 * diff >= -n
              /\ row.success_rate >= 0
              /\ row.success_rate <= 100 * 100

ObservedPairs(days) == {k \in PairNames : PairObservations(days, k) # {}}

\* C15: a pair name with no observation in the documents of the window is
\* in no row of the exchange-pair analytics, no row reports zero
\* observations, and when the limit cuts nothing every pair name with an
\* observation in the window has its row.
C15_EmptyPairsExcluded ==
    (last.op = "get_exchange_pair_analytics" /\ last.status = 200) =>
       LET days == last.args[1]
           limit == last.args[2]
           names == {last.body[r].pair_name : r \in DOMAIN last.body}
       IN  /\ names \subseteq ObservedPairs(days)
           /\ \A r \in DOMAIN last.body :
                 last.body[r].total_opportunities =
                    Cardinality(PairObservations(days, last.body[r].pair_name))
           /\ \A r, q \in DOMAIN last.body :
                 r # q => last.body[r].pair_name # last.body[q].pair_name
           /\ Len(last.body) =
                 IF Cardinality(ObservedPairs(days)) < limit
                 THEN Cardinality(ObservedPairs(days)) ELSE limit
           /\ Cardinality(ObservedPairs(days)) <= limit => names = ObservedPairs(days)

\* C15 witness: a document of the window stores one pair name with an
\* empty list and the other with observations; only the other is reported.
C15_Witness ==
    /\ last.op = "get_exchange_pair_analytics"
    /\ last.args[2] = 2
    /\ Len(last.body) = 1
    /\ \E d \in InWindowDocs(last.args[1]) :
          \E k \in DOMAIN multi_exchange[d].exchange_pair_opportunities :
             /\ multi_exchange[d].exchange_pair_opportunities[k] = <<>>
             /\ k \notin ObservedPairs(last.args[1])

\* The mean return of pair a is at least that of pair b.
PairMeanGeq(days, a, b) ==
    SumPairs(PairObservations(days, a)) * Cardinality(PairObservations(days, b))
       >= SumPairs(PairObservations(days, b)) * Cardinality(PairObservations(days, a))

\* C16: the exchange-pair analytics result holds at most limit rows in
\* descending order of mean return, and no pair left out has a higher mean
\* return than a pair returned.
C16_PairsSortedAndLimited ==
    (last.op = "get_exchange_pair_analytics" /\ last.status = 200) =>
       LET days == last.args[1]
           body == last.body
           returned == {body[r].pair_name : r \in DOMAIN body}
       IN  /\ Len(body) <= last.args[2]
           /\ \A r, q \in DOMAIN body :
                 r < q => PairMeanGeq(days, body[r].pair_name, body[q].pair_name)
           /\ \A out \in ObservedPairs(days) \ returned :
                 \A kept \in returned : PairMeanGeq(days, kept, out)

ExchangeRequests == {<<i, exchanges[i].total_requests>> : i \in DOMAIN exchanges}

ExchangeErrors == {<<i, exchanges[i].total_errors>> : i \in DOMAIN exchanges}

\* C17 as stated: the health summary reports as error rate the sum of
\* total_errors over the sum of total_requests of all exchanges, times 100,
\* and 0 when the sum of total_requests is 0.
C17_ErrorRateExact ==
    (last.op = "get_exchange_health_summary" /\ last.status = 200) =>
       /\ last.body.total_requests = SumPairs(ExchangeRequests)
       /\ last.body.total_errors = SumPairs(ExchangeErrors)
       /\ IF SumPairs(ExchangeRequests) = 0
          THEN last.body.error_rate_percent = 0
          ELSE last.body.error_rate_percent * SumPairs(ExchangeRequests)
                  = SumPairs(ExchangeErrors) * 100 * 100

\* C17 as amended: the error rate reported is that quotient rounded to two
\* decimals (at most half a hundredth away from it), and 0 when the sum of
\* total_requests is 0, with no exchange at all included.
C17_ErrorRateRounded ==
    (last.op = "get_exchange_health_summary" /\ last.status = 200) =>
       LET requests == SumPairs(ExchangeRequests)
           diff == last.body.error_rate_percent * requests
                      - SumPairs(ExchangeErrors) * 100 * 100
       IN  /\ last.body.total_requests = requests
           /\ last.body.total_errors = SumPairs(ExchangeErrors)
           /\ IF requests = 0
              THEN last.body.error_rate_percent = 0
              ELSE 2 * diff <= requests /\ 2 * diff >= -requests

\* C17 witness: one error in three requests over two exchanges, one of
\* which has served no request: 33.33 percent.
C17_Witness ==
    /\ last.op = "get_exchange_health_summary"
    /\ Len(exchanges) = 2
    /\ \E i \in DOMAIN exchanges : exchanges[i].total_requests = 0
    /\ last.body.total_requests = 3
    /\ last.body.total_errors = 1
    /\ last.body.error_rate_percent = 3333

\* C17 witness of the empty case: no exchange at all, rate 0.
C17_WitnessEmpty ==
    /\ last.op = "get_exchange_health_summary"
    /\ exchanges = <<>>
    /\ last.body.error_rate_percent = 0

\* C18: the health summary lists an exchange as unhealthy exactly when
\* consecutive_errors >= 3 or it is not active, counts it as healthy
\* exactly when it is active with consecutive_errors < 3, so every exchange
\* is one or the other and never both, and healthy <= active <= total.
C18_HealthClassification ==
    (last.op = "get_exchange_health_summary" /\ last.status = 200) =>
       LET body == last.body
           listed == {body.unhealthy_exchanges[i] : i \in DOMAIN body.unhealthy_exchanges}
           bad == {i \in DOMAIN exchanges :
                      exchanges[i].consecutive_errors >= 3 \/ ~exchanges[i].is_active}
           good == {i \in DOMAIN exchanges :
                       exchanges[i].is_active /\ exchanges[i].consecutive_errors < 3}
       IN  /\ listed = {exchanges[i].name : i \in bad}
           /\ Len(body.unhealthy_exchanges) = Cardinality(bad)
           /\ body.healthy_exchanges = Cardinality(good)
           /\ good \cap bad = {}
           /\ good \cup bad = DOMAIN exchanges
           /\ body.healthy_exchanges + Len(body.unhealthy_exchanges) = body.total_exchanges
           /\ body.total_exchanges = Len(exchanges)
           /\ body.active_exchanges =
                 Cardinality({i \in DOMAIN exchanges : exchanges[i].is_active})
           /\ body.healthy_exchanges <= body.active_exchanges
           /\ body.active_exchanges <= body.total_exchanges

\* C18 witness: an active exchange with three consecutive errors is listed
\* as unhealthy next to a healthy one.
C18_Witness ==
    /\ last.op = "get_exchange_health_summary"
    /\ last.body.healthy_exchanges = 1
    /\ \E i \in DOMAIN exchanges :
          /\ exchanges[i].is_active
          /\ exchanges[i].consecutive_errors = 3
          /\ last.body.unhealthy_exchanges = <<exchanges[i].name>>

\* The timestamp strings of the model that are ISO datetimes.
IsoDatetimeStrings == {"1970-01-01T00:00:00Z", "1970-01-02T00:00:00"}

FullyFormed(sub) ==
    /\ sub.analysis_duration_seconds > 0
    /\ sub.total_opportunities_found >= 0
    /\ sub.started_at \in IsoDatetimeStrings
    /\ sub.completed_at \in IsoDatetimeStrings

\* C19: a fully-formed submission is stored as exactly one new
\* AnalysisResult whose id is returned, and no step changes or removes an
\* AnalysisResult stored before.
C19_WriteOnceAppend ==
    [][ /\ (last'.op = "submit_analysis_result" /\ FullyFormed(last'.args)) =>
              /\ last'.status = 201
              /\ Len(analysis_results') = Len(analysis_results) + 1
              /\ last'.body = Len(analysis_results')
              /\ analysis_results'[last'.body].analysis_id = last'.args.analysis_id
        /\ \A i \in DOMAIN analysis_results :
              /\ i \in DOMAIN analysis_results'
              /\ analysis_results'[i] = analysis_results[i] ]_vars

\* C20: a submission whose started_at or completed_at is no valid instant
\* is refused with a client error (400 when its other fields are in range,
\* the request model's 422 otherwise) and leaves every collection as it was.
C20_BadTimestampRejected ==
    [][ ( /\ last'.op = "submit_analysis_result"
          /\ \/ last'.args.started_at \notin IsoDatetimeStrings
             \/ last'.args.completed_at \notin IsoDatetimeStrings )
        => /\ last'.status \in {400, 422}
           /\ ( /\ last'.args.analysis_duration_seconds > 0
                /\ last'.args.total_opportunities_found >= 0 ) => last'.status = 400
           /\ stores' = stores ]_vars

\* C20 witness: a submission in range whose started_at parses and whose
\* completed_at does not was answered 400.
C20_Witness ==
    /\ last.op = "submit_analysis_result"
    /\ last.status = 400
    /\ last.args.analysis_duration_seconds > 0
    /\ last.args.started_at = "1970-01-01T00:00:00Z"
    /\ last.args.completed_at = "yesterday"

\* The AnalysisResult records whose started_at lies in the window.
RunsInWindow(days) ==
    {i \in DOMAIN analysis_results :
        /\ now - days <= analysis_results[i].started_at
        /\ analysis_results[i].started_at <= now}

Smaller(a, b) == IF a < b THEN a ELSE b

\* C21: the analysis history answers with the at most N records with the
\* latest started_at among those of the window, latest first: it holds
\* min(N, records in the window) records, each of the window, in descending
\* order of started_at, and no record left out started later than one listed.
C21_HistoryLatestFirst ==
    last.op = "get_analysis_history" =>
       /\ last.status = 200
       /\ Len(last.body) = Smaller(last.args[2], Cardinality(RunsInWindow(last.args[1])))
       /\ \A k \in DOMAIN last.body :
             \E i \in RunsInWindow(last.args[1]) : last.body[k] = analysis_results[i]
       /\ \A k, l \in DOMAIN last.body :
             k < l => last.body[k].started_at >= last.body[l].started_at
       /\ \A i \in RunsInWindow(last.args[1]) :
             (\A k \in DOMAIN last.body : last.body[k] # analysis_results[i]) =>
                \A k \in DOMAIN last.body :
                   last.body[k].started_at >= analysis_results[i].started_at

\* C22: the net return is derived once, at creation.  No step changes the
\* net_return_percent of a stored opportunity, not even a later change of
\* its gas cost; get_opportunity and list_opportunities leave the store as
\* it was and answer with the stored value of each opportunity they return.
C22_NetReturnNotRecomputed ==
    [][ /\ \A i \in DOMAIN opportunities :
              /\ i \in DOMAIN opportunities'
              /\ opportunities'[i].net_return_percent
                    = opportunities[i].net_return_percent
        /\ last'.op \in {"get_opportunity", "list_opportunities"} =>
              stores' = stores
        /\ (last'.op = "get_opportunity" /\ last'.status = 200) =>
              last'.body.net_return_percent
                 = opportunities[last'.args].net_return_percent
        /\ last'.op = "list_opportunities" =>
              \A k \in DOMAIN last'.body.items :
                 last'.body.items[k].net_return_percent
                    = opportunities[last'.body.items[k].id].net_return_percent ]_vars

\* C22 witness: an opportunity whose gas cost was changed after creation,
\* so that deriving again would give another figure, was read back.
C22_Witness ==
    /\ last.op = "get_opportunity"
    /\ last.status = 200
    /\ opportunities[last.args].gas_cost_usd = 70
    /\ ~RatEq(NetReturn(opportunities[last.args]),
              opportunities[last.args].net_return_percent)
    /\ RatEq(last.body.net_return_percent, Rat(40, 1))

StoreQueryOps ==
    {"get_analytics_overview", "get_analysis_history", "create_opportunity"}

\* C24: a request whose query runs while the store is unreachable is never
\* answered as a success, and is answered with the store-unavailable
\* response (503, "Database connection error"), which no request served
\* while the store is reachable receives: the failure is told apart from
\* "no data" and from every other kind of error.
C24_StoreUnavailableDistinct ==
    [][ ( /\ last'.op \in StoreQueryOps
          /\ last'.status # 422 )
        => /\ ~server_up => last'.status \notin {200, 201}
           /\ ~server_up <=> last'.status = 503 ]_vars

C26_ConnectedHasClient ==
    db_manager._is_connected =>
       (db_manager._client # NoClient /\ db_manager._database # NoClient)

\* C27: every client created and still open is the one the manager keeps
\* (connect never drops a client it created without closing it), so at most
\* one client is open; a connect call on a connected manager creates none.
C27_SingleClient ==
    [][ /\ \A c \in DOMAIN clients' :
              clients'[c] = "open" => db_manager'._client = c
        /\ db_manager._is_connected => Len(clients') = Len(clients) ]_vars

\* C28: a connect call that fails answers with ConnectionError and leaves
\* the manager disconnected: is_connected false, client and database handle
\* None, so that health_check returns false until a later connect succeeds.
C28_FailedConnectDisconnected ==
    [][ /\ (last'.op = "connect" /\ last'.status = 503) =>
              /\ ~db_manager'._is_connected
              /\ db_manager'._client = NoClient
              /\ db_manager'._database = NoClient
        /\ ( /\ last'.op = "health_check"
             /\ tasks' = tasks
             /\ ~db_manager._is_connected ) => last'.body = FALSE ]_vars

\* C29: close_database is called exactly once by the time the lifespan has
\* ended, after a shutdown as after a failed startup, and never before; at
\* the end no client is kept or left open and the manager is disconnected;
\* a startup failure is raised again, and only a failure is.
C29_LifespanClosesDatabase ==
    /\ app.pc \in {"created", "starting", "serving"} => app.closes = 0
    /\ app.pc \in {"failed", "stopped"} =>
          /\ app.closes = 1
          /\ db_manager = [_client |-> NoClient, _database |-> NoClient,
                           _is_connected |-> FALSE]
          /\ \A c \in DOMAIN clients : clients[c] = "closed"
    /\ app.raised <=> app.pc = "failed"
    /\ (last.op = "connect" /\ last.args = "lifespan" /\ last.status = 503) =>
          app.pc = "failed"

\* C29 witness: the startup failed after the client was created (the ping
\* or init_beanie raised): the client is closed, the failure raised again.
C29_Witness ==
    /\ app.pc = "failed"
    /\ app.raised
    /\ app.closes = 1
    /\ clients = <<"closed">>

\* A second case of C29: the application served and was shut down.
C29_WitnessShutdown ==
    /\ app.pc = "stopped"
    /\ app.closes = 1
    /\ clients = <<"closed">>

ListOps ==
    {"list_opportunities", "list_multi_exchange_opportunities",
     "list_tokens", "list_exchanges"}

\* The number of records the listing's filter matches.
Matching(op, filter) ==
    CASE op = "list_opportunities" ->
            Cardinality({i \in DOMAIN opportunities :
                filter = None \/ opportunities[i].token_symbol = filter})
      [] op = "list_multi_exchange_opportunities" ->
            Cardinality({i \in DOMAIN multi_exchange :
                filter = None \/ multi_exchange[i].symbol = filter})
      [] op = "list_tokens" ->
            Cardinality({i \in DOMAIN tokens :
                filter = None \/ tokens[i].chain = filter})
      [] op = "list_exchanges" -> Len(exchanges)

\* C30: a page of any of the four listings holds at most page_size records;
\* has_next is true exactly when page * page_size is less than the number
\* of matching records, which is exactly when a matching record lies beyond
\* the page; and with the store unchanged, the page after one with
\* has_next = false holds no record.
C30_Pagination ==
    [][ last'.op \in ListOps =>
          LET page == last'.args[1]
              page_size == last'.args[2]
              total == Matching(last'.op, last'.args[3])
              shown == Len(last'.body.items)
          IN  /\ last'.status = 200
              /\ stores' = stores
              /\ shown <= page_size
              /\ last'.body.total = total
              /\ last'.body.has_next <=> page * page_size < total
              /\ last'.body.has_next <=> (page - 1) * page_size + shown < total
              /\ ( /\ last.op = last'.op
                   /\ ~last.body.has_next
                   /\ last.args[1] + 1 = page
                   /\ last.args[2] = page_size
                   /\ last.args[3] = last'.args[3] ) => shown = 0 ]_vars

\* C30 witness: a page that ends exactly at the last matching record
\* (page * page_size = total) was answered with has_next = false.
C30_Witness ==
    /\ last.op = "list_tokens"
    /\ last.args = <<1, 2, None>>
    /\ last.body.total = 2
    /\ Len(last.body.items) = 2
    /\ ~last.body.has_next

====
